---- MODULE Spec2Model ----
(***************************************************************************)
(* State machine of src/src/components/Scanner.jsx: the React component    *)
(* that joins a camera decoder and a keyboard-wedge listener into one scan *)
(* session, with camera enumeration, hot-plug and permission handling.     *)
(*                                                                         *)
(* React state is one variable per useState cell.  A handler reads the     *)
(* cells through the closure of the render that created it:                *)
(*   - the keydown listener is created by the effect of lines 26-45 and    *)
(*     reads buffer and scanStartTime as captured when the effect last ran *)
(*     (variable listener); the effect is passive, so it runs in a later   *)
(*     step (RunEffects) or, at the latest, before the next commit;        *)
(*   - an async function (startScanning, enumerateVideoDevices) keeps the  *)
(*     closure of the render it was called from across its awaits.         *)
(* The capture component is rendered only while scanning is true, under    *)
(* the key of line 226; React keeps the instance of an element whose key   *)
(* is unchanged and replaces it otherwise (variable scanners).  The effect *)
(* of lines 107-112 is passive like the keydown effect and runs with it.   *)
(* A React root that runs passive effects synchronously after a discrete   *)
(* event is the behaviour in which RunEffects follows every commit at      *)
(* once; a legacy root leaves them to the scheduler, after later events.   *)
(***************************************************************************)
EXTENDS Integers, Sequences, FiniteSets

(* ------------------------------ bounds -------------------------------- *)
MaxBuf == 2       \* longest key buffer explored
MaxTime == 2      \* the clock runs from 1 to MaxTime
MaxStarts == 2    \* startScanning calls in flight
SoloStarts == 1   \* the same, where overlapping starts are not the subject
MaxEnums == 1     \* Refresh / hot-plug enumerations in flight
MaxTimers == 1    \* pending 300 ms hot-plug timers
MaxDecodes == 2   \* decode callbacks in flight
MaxKey == 3       \* no new session or selection once scannerKey is here

(* ----------------------------- constants ------------------------------ *)
Null == -1        \* useState(null) of scanStartTime and scanTime
NullDev == 0      \* useState(null) of selectedDeviceId
Chars == {"a", "b"}
Keys == Chars \cup {"Enter", "Shift"}
WedgeKeys == {"a", "Enter"}          \* what a wedge scanner sends for "a"
Texts == {<<>>, <<"a">>, <<"b">>}                 \* result.text of a decode
DeviceIds == {1, 2}
PlatformStates == {<<>>, <<1>>, <<2>>, <<1, 2>>}   \* attached video inputs
InputValues == {<<>>, <<"a">>, <<"A">>, <<"a", "b">>}   \* e.target.value

VARIABLES
  text, scannedData, scanStartTime, scanTime, buffer,
  devices, selectedDeviceId, scanning, scannerKey, enumerating,
  focused,      \* document.activeElement === inputRef.current
  listener,     \* closure of the registered onKey: [buffer, scanStartTime]
  registered,   \* number of keydown listeners registered on window
  remount,      \* dependencies the effect of lines 107-112 last ran with
  scanners,     \* mounted BarcodeScannerComponent instances
  now,          \* Date.now()
  platform,     \* video inputs the platform would enumerate
  mountPc,      \* position of the mount effect's async function
  starts,       \* startScanning calls in flight
  enums,        \* enumerateVideoDevices calls of Refresh and hot-plug
  timers,       \* pending setTimeout(..., 300) of onDeviceChange
  decodes,      \* decode callbacks the capture driver still has to deliver
  openStreams,  \* getUserMedia streams whose tracks are not stopped
  uncaught,     \* a rejection left an async function unhandled
  last          \* the step taken last

vars == <<text, scannedData, scanStartTime, scanTime, buffer, devices,
          selectedDeviceId, scanning, scannerKey, enumerating, focused,
          listener, registered, remount, scanners, now, platform, mountPc,
          starts, enums, timers, decodes, openStreams, uncaught, last>>

(* ------------------------- React state helpers ------------------------ *)
State ==
  [text |-> text, scannedData |-> scannedData,
   scanStartTime |-> scanStartTime, scanTime |-> scanTime,
   buffer |-> buffer, devices |-> devices,
   selectedDeviceId |-> selectedDeviceId, scanning |-> scanning,
   scannerKey |-> scannerKey, enumerating |-> enumerating]

\* dependency list of the keydown effect: what a fresh listener captures
Deps(s) == [buffer |-> s.buffer, scanStartTime |-> s.scanStartTime]

\* JS truthiness of a timestamp / of a device id
Truthy(t) == t # Null /\ t # 0
TruthyDev(d) == d # NullDev

\* ((Date.now() - scanStartTime) / 1000).toFixed(2): a string, never null
Elapsed(t, start) == t - start

Range(seq) == {seq[i] : i \in 1..Len(seq)}

\* e.key.length
KeyLength(key) == IF key \in Chars THEN 1 ELSE 5

\* One commit: React runs the passive effects still pending from the
\* previous commit before it renders, so the listener is re-registered with
\* the state before this update; an update that changes nothing bails out.
Batch(s, l, new) == [s |-> new, l |-> IF new # s THEN Deps(s) ELSE l]

\* One state setter called outside a React event handler.
SetState(s, l, f, v) == Batch(s, l, [s EXCEPT ![f] = v])

\* the keydown effect without the cleanup of line 44
RegisterWithoutCleanup(n) == n + 1

\* the cleanup of the keydown effect removes the listener of the previous
\* run, then the effect adds the new one, lines 43-44
Reregister(n) == (n - 1) + 1

\* dependency list of the effect of lines 107-112
RemountDeps(s) ==
  [selectedDeviceId |-> s.selectedDeviceId, scanning |-> s.scanning]

\* the effect of lines 107-112, run by React when its dependencies differ
\* from deps, those of its previous run; s is the render it closes over
RemountEffect(s, deps) ==
  IF deps # RemountDeps(s) /\ s.scanning
  THEN [s EXCEPT !.scannerKey = @ + 1]
  ELSE s

\* a key made of scannerKey alone
MountKeyWithoutDevice(s) == <<s.scannerKey>>

\* key={scannerKey + (selectedDeviceId || "")}, line 226: a number joined
\* to a string
MountKey(s) ==
  <<s.scannerKey>>
    \o (IF TruthyDev(s.selectedDeviceId) THEN <<s.selectedDeviceId>>
        ELSE <<>>)

\* the capture driver a render creates, lines 225-238: its key and the
\* device its constraints name when it opens the camera
Scanner(s) == [key |-> MountKey(s), deviceId |-> s.selectedDeviceId]

\* React reconciles the scanner branch of lines 212-260 from render old to
\* render new: an element with the same key keeps its instance, any other
\* change unmounts the old instance and mounts the new element
ReconcileKeepsAll(m, old, new) ==
  m \cup (IF new.scanning THEN {Scanner(new)} ELSE {})

Reconcile(m, old, new) ==
  IF old.scanning /\ new.scanning /\ MountKey(old) = MountKey(new)
  THEN m
  ELSE {i \in m : old.scanning => i.key # MountKey(old)}
         \cup (IF new.scanning THEN {Scanner(new)} ELSE {})

\* what a commit leaves: the effect of lines 107-112, if still pending
\* from the previous commit, runs before the render and its update joins it
Flushed(r) ==
  IF r.s # State
  THEN [r.s EXCEPT !.scannerKey =
          @ + (RemountEffect(State, remount).scannerKey - scannerKey)]
  ELSE r.s

Commit(r) ==
  /\ text' = r.s.text
  /\ scannerKey' = Flushed(r).scannerKey
  /\ remount' = IF r.s # State THEN RemountDeps(State) ELSE remount
  /\ scanners' = Reconcile(scanners, State, Flushed(r))
  /\ registered' = IF r.l # listener THEN Reregister(registered)
                   ELSE registered
  /\ scannedData' = r.s.scannedData
  /\ scanStartTime' = r.s.scanStartTime
  /\ scanTime' = r.s.scanTime
  /\ buffer' = r.s.buffer
  /\ devices' = r.s.devices
  /\ selectedDeviceId' = r.s.selectedDeviceId
  /\ scanning' = r.s.scanning
  /\ enumerating' = r.s.enumerating
  /\ listener' = r.l

(* ------------------------------ handlers ------------------------------ *)
\* onKey below its focus guard, lines 30-41; l is the closure of the
\* listener that is registered, s the committed state
OnKeyUnfocused(s, l, key, t) ==
  IF key = "Enter"
  THEN IF l.buffer # <<>>
       THEN LET r1 == SetState(s, l, "scannedData", l.buffer)
                r2 == SetState(r1.s, r1.l, "buffer", <<>>)
                r3 == SetState(r2.s, r2.l, "scanning", FALSE)
            IN  IF Truthy(l.scanStartTime)
                THEN SetState(r3.s, r3.l, "scanTime",
                              Elapsed(t, l.scanStartTime))
                ELSE r3
       ELSE [s |-> s, l |-> l]
  ELSE IF KeyLength(key) = 1
  THEN SetState(s, l, "buffer", Append(s.buffer, key))
  ELSE [s |-> s, l |-> l]

\* onKey without line 29
OnKeyNoFocusGuard(s, l, key, foc, t) == OnKeyUnfocused(s, l, key, t)

\* onKey, lines 27-42
OnKey(s, l, key, foc, t) ==
  IF foc THEN [s |-> s, l |-> l] ELSE OnKeyUnfocused(s, l, key, t)

\* window dispatches a keydown event to each of its n listeners in turn
RECURSIVE Dispatch(_, _, _, _, _, _)
Dispatch(n, s, l, key, foc, t) ==
  IF n = 0 THEN [s |-> s, l |-> l]
  ELSE LET r == OnKey(s, l, key, foc, t)
       IN  Dispatch(n - 1, r.s, r.l, key, foc, t)

\* finally of ensureCameraPermission, line 57
StopTracks(open, stream) == IF stream THEN open - 1 ELSE open

\* ensureCameraPermission, lines 48-59: streams left open when it settles
EnsureCameraPermission(open, granted) ==
  StopTracks(IF granted THEN open + 1 ELSE open, granted)

\* the selection enumerateVideoDevices makes, lines 70-78; sel is the
\* selectedDeviceId of the closure, cur the one in the state
Selection(sel, cur, videoInputs) ==
  IF ~TruthyDev(sel) /\ Len(videoInputs) > 0 THEN videoInputs[1]
  ELSE IF TruthyDev(sel) /\ sel \notin Range(videoInputs)
  THEN IF Len(videoInputs) > 0 THEN videoInputs[1] ELSE NullDev
  ELSE cur

\* enumerateVideoDevices after its await, lines 65-81
EnumerateResolved(s, sel, videoInputs) ==
  [s EXCEPT !.devices = videoInputs,
            !.selectedDeviceId = Selection(sel, @, videoInputs),
            !.enumerating = FALSE]

\* enumerateVideoDevices when enumerateDevices rejects: only the finally
EnumerateRejected(s) == [s EXCEPT !.enumerating = FALSE]

\* startScanning without lines 119-120
StartApplyKeepsResult(s, t) ==
  [s EXCEPT !.scanStartTime = t, !.scanning = TRUE, !.scannerKey = @ + 1]

\* startScanning after both awaits, lines 119-123
StartApply(s, t) ==
  [s EXCEPT !.scannedData = <<>>, !.scanTime = Null,
            !.scanStartTime = t, !.scanning = TRUE, !.scannerKey = @ + 1]

\* a catch reached after the session was already armed
StartCatchHalfStarted(s, t) ==
  [s EXCEPT !.scanStartTime = t, !.scanning = TRUE]

\* catch of startScanning, lines 124-126
StartCatch(s, t) == s

\* cancelScanning without line 131
CancelScanningKeepsStart(s) ==
  [s EXCEPT !.scanning = FALSE, !.scanTime = Null]

\* cancelScanning, lines 129-133
CancelScanning(s) ==
  [s EXCEPT !.scanning = FALSE, !.scanStartTime = Null, !.scanTime = Null]

\* handleScanComplete without line 138
HandleScanCompleteKeepsScanning(s, data, start, t) ==
  IF data = <<>> THEN s
  ELSE [s EXCEPT !.scannedData = data,
                 !.scanTime = IF Truthy(start) THEN Elapsed(t, start) ELSE @]

\* handleScanComplete, lines 135-142; start is the closure's scanStartTime
HandleScanComplete(s, data, start, t) ==
  IF data = <<>> THEN s
  ELSE [s EXCEPT !.scannedData = data, !.scanning = FALSE,
                 !.scanTime = IF Truthy(start) THEN Elapsed(t, start) ELSE @]

\* onUpdate, lines 235-237
OnUpdate(s, d, t) ==
  IF d.text # <<>> THEN HandleScanComplete(s, d.text, d.scanStartTime, t)
  ELSE s

\* isMatch, line 144: the value of text && scannedData && text === scannedData,
\* which is the empty string when either operand is empty
IsMatch(t, v) ==
  IF t = <<>> \/ v = <<>> THEN "" ELSE IF t = v THEN "true" ELSE "false"

\* an indication that compares without regard to case
IndicationIgnoringCase(t, v) ==
  LET Lower(w) == [i \in 1..Len(w) |-> IF w[i] = "A" THEN "a" ELSE w[i]]
  IN  IF v = <<>> THEN "No scan yet..."
      ELSE IF t = <<>> THEN ""
      ELSE IF Lower(t) = Lower(v) THEN "Match Successful"
      ELSE "Does Not Match"

\* what the result panel shows under the scanned value, lines 267-287
Indication(t, v) ==
  IF v = <<>> THEN "No scan yet..."
  ELSE IF t = <<>> THEN ""
  ELSE IF t = v THEN "Match Successful"
  ELSE "Does Not Match"

(* ------------------------------- Init --------------------------------- *)
IdleCall == [pc |-> "idle", sel |-> NullDev, sawCancel |-> FALSE]

Init ==
  /\ text = <<>>
  /\ scannedData = <<>>
  /\ scanStartTime = Null
  /\ scanTime = Null
  /\ buffer = <<>>
  /\ devices = <<>>
  /\ selectedDeviceId = NullDev
  /\ scanning = FALSE
  /\ scannerKey = 0
  /\ enumerating = FALSE
  /\ focused = FALSE
  /\ listener = [buffer |-> <<>>, scanStartTime |-> Null]
  /\ registered = 1
  /\ remount = [selectedDeviceId |-> NullDev, scanning |-> FALSE]
  /\ scanners = {}
  /\ now = 1
  /\ platform = <<1, 2>>
  /\ mountPc = "perm"
  /\ starts = [i \in 1..MaxStarts |-> IdleCall]
  /\ enums = [i \in 1..MaxEnums |-> IdleCall]
  /\ timers = 0
  /\ decodes = {}
  /\ openStreams = 0
  /\ uncaught = FALSE
  /\ last = "init"

(* ------------------------------ actions ------------------------------- *)
\* the clock advances
Tick ==
  /\ now < MaxTime
  /\ now' = now + 1
  /\ last' = "tick"
  /\ UNCHANGED <<text, scannerKey, remount, scanners, registered,
                 scannedData, scanStartTime, scanTime, buffer, devices,
                 selectedDeviceId, scanning, enumerating, focused, listener,
                 platform, mountPc, starts, enums, timers, decodes,
                 openStreams, uncaught>>

\* the user puts the caret into, or takes it out of, the generator input
Focus ==
  /\ focused' = ~focused
  /\ last' = "focus"
  /\ UNCHANGED <<text, scannerKey, remount, scanners, registered,
                 scannedData, scanStartTime, scanTime, buffer, devices,
                 selectedDeviceId, scanning, enumerating, listener, now,
                 platform, mountPc, starts, enums, timers, decodes,
                 openStreams, uncaught>>

\* a keydown event reaches window
KeyDown(key) ==
  /\ KeyLength(key) = 1 => Len(buffer) < MaxBuf
  /\ Commit(Dispatch(registered, State, listener, key, focused, now))
  /\ last' = IF key = "Enter" THEN "enter" ELSE "key"
  /\ UNCHANGED <<focused, now, platform, mountPc, starts, enums, timers,
                 decodes, openStreams, uncaught>>

\* the passive effect of lines 26-45 runs: the old listener is removed and a
\* new one, closed over the committed buffer and scanStartTime, is added
\* and the passive effect of lines 107-112 runs; each only if its
\* dependencies changed
RunEffects ==
  /\ listener # Deps(State) \/ remount # RemountDeps(State)
  /\ listener' = Deps(State)
  /\ registered' = IF listener # Deps(State) THEN Reregister(registered)
                   ELSE registered
  /\ remount' = RemountDeps(State)
  /\ scannerKey' = RemountEffect(State, remount).scannerKey
  /\ scanners' = Reconcile(scanners, State, RemountEffect(State, remount))
  /\ last' = "effects"
  /\ UNCHANGED <<text, scannedData, scanStartTime, scanTime, buffer, devices,
                 selectedDeviceId, scanning, enumerating, focused, now,
                 platform, mountPc, starts, enums, timers, decodes,
                 openStreams, uncaught>>

\* mount effect, lines 86-94: getUserMedia settles, enumeration starts
MountPermission(granted) ==
  /\ mountPc = "perm"
  /\ openStreams' = EnsureCameraPermission(openStreams, granted)
  /\ Commit(Batch(State, listener, [State EXCEPT !.enumerating = TRUE]))
  /\ mountPc' = "enum"
  /\ last' = IF granted THEN "mountGranted" ELSE "mountDenied"
  /\ UNCHANGED <<focused, now, platform, starts, enums, timers, decodes,
                 uncaught>>

\* mount effect: enumerateDevices settles; its closure holds the first
\* render's selectedDeviceId, null
MountEnumerated(ok) ==
  /\ mountPc = "enum"
  /\ Commit(Batch(State, listener,
                  IF ok THEN EnumerateResolved(State, NullDev, platform)
                  ELSE EnumerateRejected(State)))
  /\ uncaught' = (uncaught \/ ~ok)
  /\ mountPc' = "done"
  /\ last' = IF ok THEN "mountEnumerated" ELSE "mountEnumFailed"
  /\ UNCHANGED <<focused, now, platform, starts, enums, timers, decodes,
                 openStreams>>

\* Start Scan is clicked (rendered only while !scanning), line 215
StartClick(i) ==
  /\ ~scanning
  /\ scannerKey < MaxKey
  /\ starts[i].pc = "idle"
  /\ \A j \in 1..(i - 1) : starts[j].pc # "idle"
  /\ starts' = [starts EXCEPT
                  ![i] = [pc |-> "perm", sel |-> selectedDeviceId,
                          sawCancel |-> FALSE]]
  /\ last' = "startClick"
  /\ UNCHANGED <<text, scannerKey, remount, scanners, registered,
                 scannedData, scanStartTime, scanTime, buffer, devices,
                 selectedDeviceId, scanning, enumerating, focused, listener,
                 now, platform, mountPc, enums, timers, decodes, openStreams,
                 uncaught>>

\* startScanning: getUserMedia resolves, enumerateVideoDevices is entered
StartPermissionGranted(i) ==
  /\ starts[i].pc = "perm"
  /\ openStreams' = EnsureCameraPermission(openStreams, TRUE)
  /\ Commit(Batch(State, listener, [State EXCEPT !.enumerating = TRUE]))
  /\ starts' = [starts EXCEPT ![i].pc = "enum"]
  /\ last' = "startGranted"
  /\ UNCHANGED <<focused, now, platform, mountPc, enums, timers, decodes,
                 uncaught>>

\* startScanning: getUserMedia rejects; ensureCameraPermission rethrows and
\* the catch of startScanning swallows it
StartPermissionDenied(i) ==
  /\ starts[i].pc = "perm"
  /\ openStreams' = EnsureCameraPermission(openStreams, FALSE)
  /\ Commit(Batch(State, listener, StartCatch(State, now)))
  /\ starts' = [starts EXCEPT ![i] = IdleCall]
  /\ last' = "startDenied"
  /\ UNCHANGED <<focused, now, platform, mountPc, enums, timers, decodes,
                 uncaught>>

\* startScanning: enumerateDevices resolves, the session is armed
StartEnumerated(i) ==
  /\ starts[i].pc = "enum"
  /\ Commit(Batch(State, listener,
                  StartApply(EnumerateResolved(State, starts[i].sel, platform),
                             now)))
  /\ starts' = [starts EXCEPT ![i] = IdleCall]
  /\ last' = IF starts[i].sawCancel THEN "startAfterCancel" ELSE "started"
  /\ UNCHANGED <<focused, now, platform, mountPc, enums, timers, decodes,
                 openStreams, uncaught>>

\* startScanning: enumerateDevices rejects, caught by startScanning
StartEnumFailed(i) ==
  /\ starts[i].pc = "enum"
  /\ Commit(Batch(State, listener,
                  StartCatch(EnumerateRejected(State), now)))
  /\ starts' = [starts EXCEPT ![i] = IdleCall]
  /\ last' = "startEnumFailed"
  /\ UNCHANGED <<focused, now, platform, mountPc, enums, timers, decodes,
                 openStreams, uncaught>>

\* Cancel Scan is clicked (rendered only while scanning), line 255.  The
\* sawCancel mark is history kept for the properties; no code reads it.
CancelClick ==
  /\ scanning
  /\ Commit(Batch(State, listener, CancelScanning(State)))
  /\ starts' = [i \in 1..MaxStarts |->
                  IF starts[i].pc = "idle" THEN starts[i]
                  ELSE [starts[i] EXCEPT !.sawCancel = TRUE]]
  /\ last' = "cancel"
  /\ UNCHANGED <<focused, now, platform, mountPc, enums, timers, decodes,
                 openStreams, uncaught>>

\* the mounted capture driver finishes decoding a frame; the callback it
\* will call is the onUpdate of the current render
DriverDecode(decoded) ==
  /\ scanning
  /\ Cardinality(decodes) < MaxDecodes
  /\ [text |-> decoded, scanStartTime |-> scanStartTime] \notin decodes
  /\ decodes' =
       decodes \cup {[text |-> decoded, scanStartTime |-> scanStartTime]}
  /\ last' = "decode"
  /\ UNCHANGED <<text, scannerKey, remount, scanners, registered,
                 scannedData, scanStartTime, scanTime, buffer, devices,
                 selectedDeviceId, scanning, enumerating, focused, listener,
                 now, platform, mountPc, starts, enums, timers, openStreams,
                 uncaught>>

\* the decode callback is delivered: onUpdate(err, result)
DeliverDecode(d) ==
  /\ d \in decodes
  /\ Commit(Batch(State, listener, OnUpdate(State, d, now)))
  /\ decodes' = decodes \ {d}
  /\ last' = "onUpdate"
  /\ UNCHANGED <<focused, now, platform, mountPc, starts, enums, timers,
                 openStreams, uncaught>>

\* a camera is attached or detached: devicechange fires, onDeviceChange
\* arms its 300 ms timer (lines 96-99)
HotPlug(p) ==
  /\ p # platform
  /\ scannerKey < MaxKey
  /\ timers < MaxTimers
  /\ platform' = p
  /\ timers' = timers + 1
  /\ last' = "hotplug"
  /\ UNCHANGED <<text, scannerKey, remount, scanners, registered,
                 scannedData, scanStartTime, scanTime, buffer, devices,
                 selectedDeviceId, scanning, enumerating, focused, listener,
                 now, mountPc, starts, enums, decodes, openStreams, uncaught>>

\* the timer fires: enumerateVideoDevices of the first render is called
TimerFire(i) ==
  /\ timers > 0
  /\ enums[i].pc = "idle"
  /\ \A j \in 1..(i - 1) : enums[j].pc # "idle"
  /\ timers' = timers - 1
  /\ enums' = [enums EXCEPT
                 ![i] = [pc |-> "enum", sel |-> NullDev, sawCancel |-> FALSE]]
  /\ Commit(Batch(State, listener, [State EXCEPT !.enumerating = TRUE]))
  /\ last' = "timer"
  /\ UNCHANGED <<focused, now, platform, mountPc, starts, decodes,
                 openStreams, uncaught>>

\* Refresh is clicked (disabled while enumerating), line 203
RefreshClick(i) ==
  /\ ~enumerating
  /\ enums[i].pc = "idle"
  /\ \A j \in 1..(i - 1) : enums[j].pc # "idle"
  /\ enums' = [enums EXCEPT
                 ![i] = [pc |-> "enum", sel |-> selectedDeviceId,
                         sawCancel |-> FALSE]]
  /\ Commit(Batch(State, listener, [State EXCEPT !.enumerating = TRUE]))
  /\ last' = "refresh"
  /\ UNCHANGED <<focused, now, platform, mountPc, starts, timers, decodes,
                 openStreams, uncaught>>

\* enumerateDevices of a Refresh or hot-plug enumeration settles
Enumerated(i, ok) ==
  /\ enums[i].pc = "enum"
  /\ Commit(Batch(State, listener,
                  IF ok THEN EnumerateResolved(State, enums[i].sel, platform)
                  ELSE EnumerateRejected(State)))
  /\ uncaught' = (uncaught \/ ~ok)
  /\ enums' = [enums EXCEPT ![i] = IdleCall]
  /\ last' = IF ok THEN "enumerated" ELSE "enumFailed"
  /\ UNCHANGED <<focused, now, platform, mountPc, starts, timers, decodes,
                 openStreams>>

\* the user picks another option of the device select, line 188
SelectDevice(d) ==
  /\ d \in Range(devices)
  /\ d # selectedDeviceId
  /\ scannerKey < MaxKey
  /\ Commit(Batch(State, listener, [State EXCEPT !.selectedDeviceId = d]))
  /\ last' = "select"
  /\ UNCHANGED <<focused, now, platform, mountPc, starts, enums, timers,
                 decodes, openStreams, uncaught>>

\* the user edits the generator input, line 163
ChangeText(v) ==
  /\ focused
  /\ v # text
  /\ Commit(Batch(State, listener, [State EXCEPT !.text = v]))
  /\ last' = "change"
  /\ UNCHANGED <<focused, now, platform, mountPc, starts, enums, timers,
                 decodes, openStreams, uncaught>>

(* --------------------------- specifications --------------------------- *)
Mount ==
  \/ \E g \in BOOLEAN : MountPermission(g)
  \/ \E ok \in BOOLEAN : MountEnumerated(ok)

Start(n) ==
  \/ \E i \in 1..n : StartClick(i)
  \/ \E i \in 1..n : StartPermissionGranted(i)
  \/ \E i \in 1..n : StartPermissionDenied(i)
  \/ \E i \in 1..n : StartEnumerated(i)
  \/ \E i \in 1..n : StartEnumFailed(i)

\* the keyboard wedge within a scan session, one start at a time, the
\* clock standing still
Next ==
  \/ Focus
  \/ \E key \in Keys : KeyDown(key)
  \/ RunEffects
  \/ Start(SoloStarts)
  \/ CancelClick

Spec == Init /\ [][Next]_vars

\* the camera session: overlapping starts, cancel and decode callbacks
NextCamera ==
  \/ Tick
  \/ Start(MaxStarts)
  \/ CancelClick
  \/ \E decoded \in Texts : DriverDecode(decoded)
  \/ \E d \in decodes : DeliverDecode(d)

SpecCamera == Init /\ [][NextCamera]_vars

\* the device registry: enumeration, hot-plug and selection
NextDevices ==
  \/ Mount
  \/ Start(SoloStarts)
  \/ CancelClick
  \/ \E p \in PlatformStates : HotPlug(p)
  \/ \E i \in 1..MaxEnums : TimerFire(i)
  \/ \E i \in 1..MaxEnums : RefreshClick(i)
  \/ \E i \in 1..MaxEnums, ok \in BOOLEAN : Enumerated(i, ok)
  \/ \E d \in DeviceIds : SelectDevice(d)

SpecDevices == Init /\ [][NextDevices]_vars

\* both sources in one session: keyboard flushes, decode callbacks,
\* overlapping starts and cancel, the input unfocused, the clock standing
\* still
NextSession ==
  \/ \E key \in WedgeKeys : KeyDown(key)
  \/ RunEffects
  \/ Start(MaxStarts)
  \/ CancelClick
  \/ \E decoded \in Texts \ {<<>>} : DriverDecode(decoded)
  \/ \E d \in decodes : DeliverDecode(d)

SpecSession == Init /\ [][NextSession]_vars

\* the match evaluator: the generator input, one start at a time and the
\* decode callbacks of the camera
NextMatch ==
  \/ Focus
  \/ \E v \in InputValues : ChangeText(v)
  \/ Start(SoloStarts)
  \/ \E decoded \in Texts : DriverDecode(decoded)
  \/ \E d \in decodes : DeliverDecode(d)

SpecMatch == Init /\ [][NextMatch]_vars

\* the capture driver's mounts: one start at a time, cancel, selection,
\* hot-plug enumeration and the effects
NextMount ==
  \/ Start(SoloStarts)
  \/ CancelClick
  \/ RunEffects
  \/ \E d \in DeviceIds : SelectDevice(d)
  \/ \E p \in PlatformStates : HotPlug(p)
  \/ \E i \in 1..MaxEnums : TimerFire(i)
  \/ \E i \in 1..MaxEnums : Enumerated(i, TRUE)

SpecMount == Init /\ [][NextMount]_vars

(* ------------------------------ claims -------------------------------- *)
\* a session was started and has stored its result
Completed ==
  /\ scanStartTime # Null
  /\ scannedData # <<>>
  /\ scanTime # Null
  /\ ~scanning

\* a session was cancelled, nothing was started since, and a decode that the
\* driver began before the cancel is still to be delivered
CancelledWithDecode ==
  /\ ~scanning
  /\ scanStartTime = Null
  /\ scannedData = <<>>
  /\ scanTime = Null
  /\ decodes # {}

\* C1: once a decode or a keyboard flush has stored the result of a session,
\* a further decode callback or keyboard flush before the next start leaves
\* scannedData and scanTime unchanged.
C1_OneResultPerSession ==
  [][(Completed /\ last' \in {"onUpdate", "enter"})
       => (scannedData' = scannedData /\ scanTime' = scanTime)]_vars

\* C2: a decode callback delivered after cancelScanning is discarded:
\* scannedData stays empty, scanTime null and scanning false.
C2_DecodeAfterCancelDiscarded ==
  [][(CancelledWithDecode /\ last' = "onUpdate")
       => (scannedData' = <<>> /\ scanTime' = Null /\ scanning' = FALSE)]_vars

\* C3: the continuation of a startScanning call that was in flight when
\* cancelScanning ran changes none of scanning, scanStartTime, scannedData
\* and scanTime.
C3_StartAfterCancelDiscarded ==
  [][last' = "startAfterCancel"
       => UNCHANGED <<scanning, scanStartTime, scannedData, scanTime>>]_vars

\* C4: in every reachable state scannedData is non-empty exactly when
\* scanTime is non-null.
C4_ResultNeverPartial == (scannedData # <<>>) <=> (scanTime # Null)

\* a step in which an enumeration completes and stores its result
EnumerationCompletes ==
  last' \in {"mountEnumerated", "enumerated", "started", "startAfterCancel"}

\* C5: when an enumeration completes with result D and the selection held
\* at that moment is s: if s is not in D and D is non-empty the selection
\* becomes the first element of D, and if D is empty it becomes null.
C5_DeviceFallback ==
  [][EnumerationCompletes
       => /\ (selectedDeviceId \notin Range(devices') /\ devices' # <<>>)
               => selectedDeviceId' = devices'[1]
          /\ devices' = <<>> => selectedDeviceId' = NullDev]_vars

\* C6: while the generator input has focus no key event, printable or
\* Enter, changes buffer, scannedData, scanning, scanStartTime or scanTime.
C6_FocusGuard ==
  [][(focused /\ last' \in {"key", "enter"})
       => UNCHANGED <<buffer, scannedData, scanning, scanStartTime,
                      scanTime>>]_vars

\* Enter arrived while the input had focus, with characters buffered, a
\* listener that has captured them and a session active: nothing was flushed
C6_Witness ==
  /\ last = "enter"
  /\ focused
  /\ buffer # <<>>
  /\ listener.buffer = buffer
  /\ scanning
  /\ scannedData = <<>>

\* C7: an Enter received while not focused, after n >= 1 printable keys were
\* received while not focused since the last flush (they are the buffer),
\* stores exactly those characters in order, empties the buffer and ends
\* the session, whenever the listener was last re-registered.
C7_FlushStoresBuffer ==
  [][(~focused /\ buffer # <<>> /\ last' = "enter")
       => (scannedData' = buffer /\ buffer' = <<>> /\ scanning' = FALSE)]_vars

\* C8: an Enter received while the buffer is empty leaves buffer,
\* scannedData, scanning, scanStartTime and scanTime unchanged.
C8_EmptyFlush ==
  [][(buffer = <<>> /\ last' = "enter")
       => UNCHANGED <<buffer, scannedData, scanning, scanStartTime,
                      scanTime>>]_vars

\* C9: after cancelScanning the key buffer is empty.
C9_CancelClearsBuffer == last = "cancel" => buffer = <<>>

\* C10: when getUserMedia rejects inside startScanning, scanning,
\* scannedData, scanTime and scanStartTime keep their values, no stream is
\* left open and no rejection leaves startScanning.
C10_FailedStart ==
  [][last' = "startDenied"
       => /\ UNCHANGED <<scanning, scannedData, scanTime, scanStartTime>>
          /\ openStreams' = 0
          /\ uncaught' = uncaught]_vars

\* a start failed after an earlier session had completed: the session is
\* idle and the earlier result is still there
C10_Witness ==
  /\ last = "startDenied"
  /\ ~scanning
  /\ scannedData # <<>>
  /\ scanTime # Null
  /\ scanStartTime # Null
  /\ openStreams = 0

\* C11: every time ensureCameraPermission fails, in the mount effect and in
\* startScanning alike, the caller goes on to invoke enumerateVideoDevices:
\* the step in which getUserMedia rejects takes the caller to its
\* enumeration.
C11_EnumerationAfterDenial ==
  [][/\ last' = "mountDenied" => (mountPc' = "enum" /\ enumerating')
     /\ last' = "startDenied"
          => \E i \in 1..MaxStarts :
               /\ starts[i].pc = "perm"
               /\ starts'[i].pc = "enum"
               /\ enumerating']_vars

\* C12: immediately after a successful startScanning has applied its
\* updates, scannedData is empty, scanTime is null, scanStartTime is the
\* time of this start and scanning is true, whatever an earlier session
\* left behind.
C12_StartArmsSession ==
  [][last' \in {"started", "startAfterCancel"}
       => /\ scannedData' = <<>>
          /\ scanTime' = Null
          /\ scanStartTime' = now
          /\ scanning']_vars

\* a later session has just been armed: its start time is the present one,
\* while a decode of an earlier session, started at another time, is still
\* to be delivered
C12_Witness ==
  /\ last = "started"
  /\ scanning
  /\ scannedData = <<>>
  /\ scanTime = Null
  /\ scanStartTime = now
  /\ scannerKey > 1
  /\ \E d \in decodes : d.scanStartTime \notin {Null, scanStartTime}

\* C13: cancelScanning on an active session sets scanning false and
\* scanStartTime null and emits no result (scannedData stays empty and
\* scanTime null); the state it leaves offers Start Scan as the idle state
\* does, and nothing of the capture driver remains mounted.
C13_CancelDeactivates ==
  [][(scanning /\ last' = "cancel")
       => /\ scanning' = FALSE
          /\ scanStartTime' = Null
          /\ scannedData' = <<>>
          /\ scanTime' = Null
          /\ scanners' = {}]_vars

\* an armed session, its start time recorded, has just been cancelled
C13_Witness ==
  /\ last = "cancel"
  /\ ~scanning
  /\ scanStartTime = Null
  /\ scannedData = <<>>
  /\ scannerKey > 0
  /\ \A i \in 1..MaxStarts : starts[i].pc = "idle"

\* C18: when an enumeration completes with result D and the selected
\* device id is in D, the selection is unchanged, whatever triggered the
\* enumeration (mount, Refresh, start, or a hot-plug devicechange after the
\* user selected a device other than the first).
C18_ValidSelectionKept ==
  [][(EnumerationCompletes /\ selectedDeviceId \in Range(devices'))
       => selectedDeviceId' = selectedDeviceId]_vars

\* C19: in every reachable state in which scanning is true, scannedData is
\* empty, scanTime is null and scanStartTime is not null, after any
\* interleaving of starts (overlapping ones included), cancels, decode
\* callbacks and keyboard flushes.
C19_ActiveSessionShape ==
  scanning => (scannedData = <<>> /\ scanTime = Null /\ scanStartTime # Null)

\* a session is active again through a start that overlapped an earlier
\* session and its cancel, with keys buffered and a decode callback of
\* the earlier session still pending
C19_Witness ==
  /\ scanning
  /\ last = "startAfterCancel"
  /\ scannerKey > 1
  /\ buffer # <<>>
  /\ decodes # {}

\* C16: for every generated text t and scanned value v, isMatch is true
\* exactly when t is non-empty, v is non-empty and t equals v character for
\* character (case matters); the panel shows Match Successful exactly then
\* and Does Not Match exactly when both are non-empty and differ; and a
\* decoded value that differs from t is stored in scannedData all the same.
C16_MatchCorrect ==
  [][/\ (IsMatch(text', scannedData') = "true")
          <=> (text' # <<>> /\ scannedData' # <<>> /\ text' = scannedData')
     /\ (Indication(text', scannedData') = "Match Successful")
          <=> (IsMatch(text', scannedData') = "true")
     /\ (Indication(text', scannedData') = "Does Not Match")
          <=> (text' # <<>> /\ scannedData' # <<>> /\ text' # scannedData')
     /\ last' = "onUpdate"
          => \A d \in decodes \ decodes' :
               (d.text # <<>> /\ d.text # text) => scannedData' = d.text]_vars

\* the decoder has just delivered "a" while the generated text is "A": the
\* value is stored and the panel shows Does Not Match
C16_Witness ==
  /\ last = "onUpdate"
  /\ text = <<"A">>
  /\ scannedData = <<"a">>
  /\ IsMatch(text, scannedData) = "false"
  /\ Indication(text, scannedData) = "Does Not Match"

\* C17: at every moment at most one keydown listener is registered, so a
\* printable key received while the input is not focused appends exactly
\* that one character to the buffer and an Enter stores at most one result,
\* however often the listener has been re-registered.
C17_SingleListener ==
  [][/\ registered' <= 1
     /\ (~focused /\ last' = "key" /\ buffer' # buffer)
          => \E c \in Chars : buffer' = Append(buffer, c)
     /\ (~focused /\ last' = "enter" /\ scannedData' # scannedData)
          => (scannedData' = listener.buffer /\ scanning' = FALSE)]_vars

\* a second character has just been appended by a listener that was
\* re-registered after the first one
C17_Witness ==
  /\ last = "key"
  /\ ~focused
  /\ registered = 1
  /\ Len(buffer) = 2
  /\ listener.buffer # <<>>

\* C14: whenever the selected device changes while a session is active, by
\* the user's selection or by the fallback of an enumeration, the mount key
\* of the capture component changes: the mounted instance is torn down and
\* the one mounted instead was created for the newly selected device; no
\* instance is kept with only its constraints changed.
C14_DeviceChangeRemounts ==
  [][(scanning /\ scanning' /\ selectedDeviceId' # selectedDeviceId)
       => /\ MountKey(State') # MountKey(State)
          /\ scanners' \cap scanners = {}
          /\ scanners' # {}
          /\ \A i \in scanners' : i.deviceId = selectedDeviceId']_vars

\* the user has just selected the other camera during a session: one
\* capture instance is mounted, created for that camera
C14_Witness ==
  /\ last = "select"
  /\ scanning
  /\ selectedDeviceId = 2
  /\ scanners = {Scanner(State)}

\* C20: one successful start creates one capture session: once the scanner
\* is mounted for a session, its mount key (scannerKey joined to
\* selectedDeviceId) does not change, and the mounted instance stays, until
\* the selected device changes or the session ends.
C20_OneMountPerStart ==
  [][(scanning /\ scanning' /\ selectedDeviceId' = selectedDeviceId
        /\ last' \notin {"started", "startAfterCancel"})
       => (MountKey(State') = MountKey(State) /\ scanners' = scanners)]_vars

\* C15: the capture driver is mounted exactly when scanning is true, at most
\* one instance is mounted at any time, and whenever the session leaves the
\* active state (decode, keyboard flush or cancel) the one mounted instance
\* is unmounted in that step, so that each instance is released once.
C15_DriverFollowsScanning ==
  [][/\ scanners' = (IF scanning' THEN {Scanner(State')} ELSE {})
     /\ Cardinality(scanners') <= 1
     /\ (scanning /\ ~scanning')
          => (Cardinality(scanners) = 1 /\ scanners' = {})]_vars

\* an Enter has just ended an active session with a keyboard flush: the
\* instance that was mounted, after one remount, is gone
C15_Witness ==
  /\ last = "enter"
  /\ ~scanning
  /\ remount.scanning
  /\ scannerKey > 1
  /\ scannedData # <<>>
  /\ scanners = {}

====
